---- MODULE Spec2Model ----
(***************************************************************************)
(* A model of the atlas packing stage of TextureDefrag: Pack,              *)
(* ExtractOutline2f / ExtractOutline2d and IntegerShift.                   *)
(*                                                                         *)
(* Numbers.  UV coordinates are exact rationals <<n, d>> (d > 0, lowest    *)
(* terms); <<1, 0>> stands for a non-finite float.  Rounding of float and  *)
(* double arithmetic is not modelled; integer truncation is.               *)
(* Indices.  Container indices keep the 0-based values of the code; the    *)
(* sequences that hold containers are 1-based, so container k is element   *)
(* k + 1.                                                                  *)
(***************************************************************************)
EXTENDS Integers, Sequences, FiniteSets, TLC

\* ------------------------------------------------------------------ bounds
NCharts == 2

Charts == 1 .. NCharts

\* ------------------------------------------------------- program constants
packingSize == 16384
QIMAGE_MAX_DIM == 32766
MAX_SIZE == 20000
MAX_PACK_ATTEMPTS == 50

\* --------------------------------------------------------------- rationals
Abs(x) == IF x < 0 THEN -x ELSE x

RECURSIVE GCD(_, _)
GCD(a, b) == IF b = 0 THEN a ELSE GCD(b, a % b)

Norm(n, d) ==
    LET g == GCD(Abs(n), d)
    IN  IF n = 0 THEN <<0, 1>> ELSE <<n \div g, d \div g>>

RInt(k) == <<k, 1>>
RZero == <<0, 1>>
NonFinite == <<1, 0>>
RIsFinite(a) == a[2] # 0

RNeg(a) == <<-a[1], a[2]>>

RAdd(a, b) ==
    LET g == GCD(a[2], b[2])
        l == (a[2] \div g) * b[2]
    IN  Norm(a[1] * (l \div a[2]) + b[1] * (l \div b[2]), l)

RSub(a, b) == RAdd(a, RNeg(b))

\* a * k for an integer k
RMulInt(a, k) ==
    LET g == GCD(Abs(k), a[2])
    IN  IF k = 0 THEN RZero ELSE Norm(a[1] * (k \div g), a[2] \div g)

\* a * b
RMul(a, b) ==
    LET g1 == GCD(Abs(a[1]), b[2])
        g2 == GCD(Abs(b[1]), a[2])
    IN  IF a[1] = 0 \/ b[1] = 0 THEN RZero
        ELSE <<(a[1] \div g1) * (b[1] \div g2), (a[2] \div g2) * (b[2] \div g1)>>

\* a / k for an integer k > 0
RDivInt(a, k) ==
    LET g == GCD(Abs(a[1]), k)
    IN  IF a[1] = 0 THEN RZero ELSE <<a[1] \div g, a[2] * (k \div g)>>

\* std::modf: the fractional part, with the sign of the argument
RFrac(a) ==
    IF a[1] >= 0 THEN Norm(a[1] % a[2], a[2])
                 ELSE Norm(-((-a[1]) % a[2]), a[2])

RIsInteger(a) == a[2] = 1
\* a and b have the same fractional part modulo 1
RCongMod1(a, b) == RIsInteger(RSub(a, b))

RSign(a) == IF a[1] > 0 THEN 1 ELSE IF a[1] < 0 THEN -1 ELSE 0
RLess(a, b) == RSign(RSub(a, b)) < 0
\* 0 <= a <= 1
RInUnit(a) == a[1] >= 0 /\ a[1] <= a[2]

\* (int) of a non-negative rational
RTrunc(a) == a[1] \div a[2]

\* -------------------------------------------------------------- 2-D points
Pt(x, y) == <<x, y>>
PtInt(x, y) == <<RInt(x), RInt(y)>>
PtZero == <<RZero, RZero>>
PtFinite(p) == RIsFinite(p[1]) /\ RIsFinite(p[2])
PtAdd(p, q) == <<RAdd(p[1], q[1]), RAdd(p[2], q[2])>>
PtSub(p, q) == <<RSub(p[1], q[1]), RSub(p[2], q[2])>>

SeqToSet(s) == {s[i] : i \in 1 .. Len(s)}

Max(S) == CHOOSE x \in S : \A y \in S : y <= x
Min(S) == CHOOSE x \in S : \A y \in S : x <= y

\* ------------------------------------------------------------------- mesh
\* Every chart is a FaceGroup of two triangles over four mesh vertices; the
\* last vertex of chart c is the first vertex of chart c + 1, as for charts
\* that are adjacent on the surface.  Wedge j of the code is element j + 1.
Faces == 1 .. 2 * NCharts
Verts == 1 .. 3 * NCharts + 1
fpVec(c) == <<2 * c - 1, 2 * c>>
ChartOf(f) == (f + 1) \div 2
LocalVerts(k) == IF k = 1 THEN <<1, 2, 3>> ELSE <<1, 3, 4>>
\* fptr->V(j) for face f (j is 0-based)
FaceVert(f, j) == 3 * (ChartOf(f) - 1) + LocalVerts(f - 2 * (ChartOf(f) - 1))[j + 1]

\* The charts the inputs are drawn from: the raw wedge UVs of the two faces
\* (texture pixel units) and the border loops that the border walk finds,
\* each loop a sequence of <<face of the chart, wedge>>.
Quad(a, b) ==
    [uv    |-> << <<PtInt(0, 0), PtInt(a, 0), PtInt(a, b)>>,
                  <<PtInt(0, 0), PtInt(a, b), PtInt(0, b)>> >>,
     loops |-> << << <<1, 0>>, <<1, 1>>, <<1, 2>>, <<2, 2>> >> >>]

ShapeNames ==
    {"quad", "mirror", "pillow", "flat", "pair", "split", "long", "wide", "huge", "inf"}

BasicShapes == {"quad", "long", "wide", "huge", "inf"}

\* The chart sets the inputs are drawn from: every combination of the basic
\* shapes, and every shape next to charts with non-finite UVs.
ChartSets ==
    {sh \in [Charts -> ShapeNames] :
        \/ \A c \in Charts : sh[c] \in BasicShapes
        \/ \A c \in Charts : c > 1 => sh[c] = "inf"}

Shape(name) ==
    CASE name = "quad"   -> Quad(100, 100)
      [] name = "long"   -> Quad(18500, 10)
      [] name = "wide"   -> Quad(20500, 10)
      [] name = "huge"   -> Quad(30000, 30000)
      [] name = "mirror" ->
            [uv    |-> << <<PtInt(100, 0), PtInt(0, 0), PtInt(0, 100)>>,
                          <<PtInt(100, 0), PtInt(0, 100), PtInt(100, 100)>> >>,
             loops |-> << << <<1, 0>>, <<1, 1>>, <<1, 2>>, <<2, 2>> >> >>]
      [] name = "pillow" ->
            [uv    |-> << <<PtInt(0, 0), PtInt(100, 0), PtInt(100, 100)>>,
                          <<PtInt(0, 0), PtInt(100, 100), PtInt(100, 0)>> >>,
             loops |-> << >>]
      [] name = "flat"   ->
            [uv    |-> << <<PtInt(0, 0), PtInt(100, 0), PtInt(50, 0)>>,
                          <<PtInt(0, 0), PtInt(50, 0), PtInt(100, 0)>> >>,
             loops |-> << >>]
      [] name = "pair"   ->
            [uv    |-> << <<PtInt(0, 0), PtInt(100, 0), PtInt(100, 100)>>,
                          <<PtInt(10, 10), PtInt(50, 10), PtInt(50, 50)>> >>,
             loops |-> << << <<1, 0>>, <<1, 1>>, <<1, 2>> >>,
                          << <<2, 0>>, <<2, 1>>, <<2, 2>> >> >>]
      [] name = "split"  ->
            [uv    |-> << <<PtInt(0, 0), PtInt(100, 0), PtInt(100, 100)>>,
                          <<PtInt(200, 0), PtInt(300, 0), PtInt(300, 100)>> >>,
             loops |-> << << <<1, 0>>, <<1, 1>>, <<1, 2>> >>,
                          << <<2, 0>>, <<2, 1>>, <<2, 2>> >> >>]
      [] name = "inf"    ->
            [uv    |-> << <<PtInt(0, 0), <<NonFinite, RInt(0)>>, PtInt(100, 100)>>,
                          <<PtInt(0, 0), PtInt(100, 100), PtInt(0, 100)>> >>,
             loops |-> << << <<1, 0>>, <<1, 1>>, <<1, 2>>, <<2, 2>> >> >>]

\* -------------------------------------------------------------------- boxes
\* vcg::Box2 over a set of points with integer coordinates: the box is
\* non-finite as soon as one coordinate is.
BoxOf(pts) ==
    IF \A p \in pts : PtFinite(p)
    THEN [fin |-> TRUE,
          min |-> <<Min({p[1][1] : p \in pts}), Min({p[2][1] : p \in pts})>>,
          max |-> <<Max({p[1][1] : p \in pts}), Max({p[2][1] : p \in pts})>>]
    ELSE [fin |-> FALSE, min |-> <<0, 0>>, max |-> <<0, 0>>]
DimX(b) == b.max[1] - b.min[1]
DimY(b) == b.max[2] - b.min[2]

\* ------------------------------------------------------------------- state
VARIABLES
    pc,                \* where the pipeline stands
    shape,             \* input: the chart each ChartHandle refers to
    hints,             \* input: the texture object (relative and pixel sizes)
    WT,                \* per-wedge texture coordinates, fptr->WT(j): [P, N]
    VT,                \* per-vertex texture coordinates, v->T(): [P, N]
    outlines,          \* Pack: outlines
    containerVec,      \* Pack: containerVec
    packingScale,      \* Pack: packingScale
    totPacked,         \* Pack: totPacked
    containerIndices,  \* Pack: containerIndices
    packingTransforms, \* Pack: packingTransforms
    nc,                \* Pack: nc
    texszVec,          \* Pack: texszVec (the caller's vector)
    outlines_iter,     \* Pack: the charts of outlines_iter, in order
    transforms,        \* Pack: transforms
    polyToContainer,   \* Pack: polyToContainer
    n,                 \* Pack: n
    packAttempts,      \* Pack: packAttempts
    packerArg,         \* the container of the latest packer call
    placedAt,          \* per chart: the container its placing packer call got
    wbI,               \* Pack: the chart index of the write-back loop
    result,            \* the value Pack returned
    anchorMap,         \* IntegerShift: the charts that have an anchor face
    flippedInput,      \* IntegerShift: flippedInput of each chart's anchor face
    tc,                \* IntegerShift: wtcsh[anchor face].tc[0], tc[1] per chart
    si                 \* IntegerShift: the position in chartsToPack

\* -------------------------------------------------------- outline extraction
\* p.F()->WT(p.VInd()).P() along one border loop of chart c
LoopPoints(c, loop) ==
    [i \in 1 .. Len(loop) |-> WT[fpVec(c)[loop[i][1]]][loop[i][2] + 1].P]

\* the loops the border walk collects in outline2Vec
BorderLoops(c) ==
    [k \in 1 .. Len(Shape(shape[c]).loops) |-> LoopPoints(c, Shape(shape[c]).loops[k])]

\* chart.UVBox()
UVBox(c) ==
    BoxOf(UNION {SeqToSet([j \in 1 .. 3 |-> WT[fpVec(c)[k]][j].P]) : k \in 1 .. 2})

\* twice the signed area of a closed polygon with finite integer corners
RECURSIVE Shoelace(_, _)
Shoelace(o, i) ==
    IF i > Len(o) THEN 0
    ELSE LET q == o[IF i = Len(o) THEN 1 ELSE i + 1]
         IN  o[i][1][1] * q[2][1] - q[1][1] * o[i][2][1] + Shoelace(o, i + 1)

\* tri::OutlineUtil::Outline2Area(o) < 0 (false for a non-finite area)
Outline2AreaNegative(o) ==
    (\A i \in 1 .. Len(o) : PtFinite(o[i])) /\ Shoelace(o, 1) < 0

ReverseOutline2(o) == [i \in 1 .. Len(o) |-> o[Len(o) + 1 - i]]

\* tri::OutlineUtil::LargestOutline2: the first loop of largest area (0-based)
LargestOutline2(vec) ==
    LET area(k) == IF \A i \in 1 .. Len(vec[k]) : PtFinite(vec[k][i])
                   THEN Abs(Shoelace(vec[k], 1)) ELSE 0
    IN  (CHOOSE k \in 1 .. Len(vec) :
            /\ \A m \in 1 .. Len(vec) : area(m) <= area(k)
            /\ \A m \in 1 .. k - 1 : area(m) < area(k)) - 1

\* faulty variant: the fallback returns the outline it has just cleared
BoxOutlineCleared(box) == << >>

\* the four corners of the chart's UV box
BoxOutline(box) ==
    IF box.fin
    THEN << PtInt(box.min[1], box.min[2]), PtInt(box.max[1], box.min[2]),
            PtInt(box.max[1], box.max[2]), PtInt(box.min[1], box.max[2]) >>
    ELSE << <<NonFinite, NonFinite>>, <<NonFinite, NonFinite>>,
            <<NonFinite, NonFinite>>, <<NonFinite, NonFinite>> >>

\* useChartBBAsOutline
UseChartBBAsOutline(outline2Vec, box) ==
    LET maxsz == Max({0} \cup {Len(outline2Vec[k]) : k \in 1 .. Len(outline2Vec)})
    IN  IF maxsz = 0 THEN TRUE
        ELSE LET i  == IF Len(outline2Vec) = 1 THEN 0 ELSE LargestOutline2(outline2Vec)
                 ob == BoxOf(SeqToSet(outline2Vec[i + 1]))
             IN  /\ ob.fin /\ box.fin
                 /\ (DimX(ob) < DimX(box) \/ DimY(ob) < DimY(box))

ChosenOutline(outline2Vec) ==
    LET i == IF Len(outline2Vec) = 1 THEN 0 ELSE LargestOutline2(outline2Vec)
        o == outline2Vec[i + 1]
    IN  IF Outline2AreaNegative(o) THEN ReverseOutline2(o) ELSE o

ExtractOutline2d(c) ==
    IF UseChartBBAsOutline(BorderLoops(c), UVBox(c))
    THEN BoxOutline(UVBox(c))
    ELSE ChosenOutline(BorderLoops(c))

\* one float point per point of the double outline
ExtractOutline2f(c) ==
    LET outline2d == ExtractOutline2d(c)
    IN  [i \in 1 .. Len(outline2d) |-> Pt(outline2d[i][1], outline2d[i][2])]

\* ------------------------------------------------------------ texture hints
\* One entry per texture: rs is the pair ComputeRelativeSizes returns for
\* it, w and h are TextureWidth(i) and TextureHeight(i).
HintSets ==
    { << [rs |-> <<RInt(1), RInt(1)>>, w |-> 16384, h |-> 16384] >>,
      << [rs |-> <<RInt(1), RInt(1)>>, w |-> 8192, h |-> 8192] >>,
      << [rs |-> << <<9, 16384>>, <<9, 16384>> >>, w |-> 9, h |-> 9],
         [rs |-> <<RInt(1), RInt(1)>>, w |-> 16384, h |-> 16384] >>,
      [i \in 1 .. 8 |-> [rs |-> <<RInt(1), RInt(1)>>, w |-> 4096, h |-> 4096]] }

\* vcg::Point2i container(packingSize * rs.first, packingSize * rs.second)
InitialContainer(h) ==
    <<RTrunc(RMulInt(h.rs[1], packingSize)), RTrunc(RMulInt(h.rs[2], packingSize))>>

\* a + b in a 32-bit signed int
IntAdd32(a, b) ==
    IF a >= 0 /\ b >= 0 /\ a > 2147483647 - b
        THEN ((a - 2147483647) - 1) + ((b - 2147483647) - 1)
    ELSE IF a < 0 /\ b < 0 /\ a < (-2147483647 - 1) - b
        THEN (a + 2147483647) + 1 + (b + 2147483647) + 1
    ELSE a + b

RECURSIVE SumArea(_, _)
\* the accumulation loop of packingArea and textureArea; areas[i] is one term
SumArea(areas, i) ==
    IF i = 0 THEN 0
    ELSE LET sum == SumArea(areas, i - 1)
         IN  IntAdd32(sum, areas[i])

\* std::sqrt(packingArea / (double) textureArea), for the ratios the hint
\* sets produce (squares of integers)
SqrtRatio(packingArea, textureArea) ==
    CHOOSE s \in 1 .. packingSize :
        packingArea % textureArea = 0 /\ s * s = packingArea \div textureArea

PackingScaleOf(packingArea, textureArea) ==
    IF textureArea > 0 /\ packingArea > 0
    THEN SqrtRatio(packingArea, textureArea)
    ELSE 1

\* the terms of the two accumulation loops
ContainerAreas(h) ==
    [i \in 1 .. Len(h) |-> InitialContainer(h[i])[1] * InitialContainer(h[i])[2]]
TextureAreas(h) == [i \in 1 .. Len(h) |-> h[i].w * h[i].h]

\* a + b leaves the range of a 32-bit signed int
AddOverflows(a, b) ==
    \/ a >= 0 /\ b >= 0 /\ a > 2147483647 - b
    \/ a < 0 /\ b < 0 /\ a < (-2147483647 - 1) - b

\* some += of the accumulation loop overflows
RECURSIVE SumOverflows(_, _)
SumOverflows(areas, i) ==
    /\ i > 0
    /\ \/ SumOverflows(areas, i - 1)
       \/ LET sum == SumArea(areas, i - 1)
          IN  AddOverflows(sum, areas[i])

\* the sums in units of u pixels (u divides every term)
RECURSIVE SumInUnits(_, _, _)
SumInUnits(areas, i, u) ==
    IF i = 0 THEN 0 ELSE SumInUnits(areas, i - 1, u) + areas[i] \div u

RECURSIVE GcdOfAreas(_, _)
GcdOfAreas(areas, i) ==
    IF i = 0 THEN 0 ELSE GCD(GcdOfAreas(areas, i - 1), areas[i])

\* the scale for sums that are carried without loss
WideScaleOf(h) ==
    LET u == GCD(GcdOfAreas(ContainerAreas(h), Len(h)), GcdOfAreas(TextureAreas(h), Len(h)))
    IN  PackingScaleOf(SumInUnits(ContainerAreas(h), Len(h), u),
                       SumInUnits(TextureAreas(h), Len(h), u))

\* The values packingScale can get.  An int overflow in an accumulation is
\* undefined: the sum wraps, or the loop carries it in a wider register.
PackingScales(h) ==
    {PackingScaleOf(SumArea(ContainerAreas(h), Len(h)), SumArea(TextureAreas(h), Len(h)))}
    \cup (IF \/ SumOverflows(ContainerAreas(h), Len(h))
              \/ SumOverflows(TextureAreas(h), Len(h))
           THEN {WideScaleOf(h)} ELSE {})

\* ---------------------------------------------------------------- the packer
\* vcg::Similarity2f: rotRad is rot quarter turns, sca the scale, tra the
\* translation.  m * p scales, then rotates, then translates.
IdentitySim == [rot |-> 0, sca |-> 1, tra |-> PtZero]

Rotate90(p, k) ==
    CASE k = 0 -> p
      [] k = 1 -> <<RNeg(p[2]), p[1]>>
      [] k = 2 -> <<RNeg(p[1]), RNeg(p[2])>>
      [] k = 3 -> <<p[2], RNeg(p[1])>>

ApplySim(m, p) ==
    PtAdd(Rotate90(<<RMulInt(p[1], m.sca), RMulInt(p[2], m.sca)>>, m.rot), m.tra)

\* The places the packer may choose for a polygon: a rotation and the
\* position of the lower left corner of the rotated polygon's box.
Placements ==
    { [rot |-> 0, off |-> <<RInt(4), RInt(4)>>],
      [rot |-> 1, off |-> << <<43, 10>>, <<97, 10>> >>],
      [rot |-> 2, off |-> << <<9, 2>>, RInt(120)>>],
      [rot |-> 3, off |-> <<RInt(4), <<1255, 10>> >>] }

\* the rational box of a set of finite rational points
RMinOf(S) == CHOOSE x \in S : \A y \in S : ~RLess(y, x)

\* the transform that puts outline o at placement pl
SimOf(o, pl, scale) ==
    LET m0  == [rot |-> pl.rot, sca |-> scale, tra |-> PtZero]
        img == {ApplySim(m0, o[i]) : i \in 1 .. Len(o)}
        lo  == <<RMinOf({q[1] : q \in img}), RMinOf({q[2] : q \in img})>>
    IN  [rot |-> pl.rot, sca |-> scale, tra |-> PtSub(pl.off, lo)]

\* the packer never places a polygon outside the container it is given
InsideContainer(o, m, container) ==
    \A i \in 1 .. Len(o) :
        LET q == ApplySim(m, o[i])
        IN  /\ RSign(q[1]) >= 0 /\ ~RLess(RInt(container[1]), q[1])
            /\ RSign(q[2]) >= 0 /\ ~RLess(RInt(container[2]), q[2])

\* the transforms the packer may give the polygon of chart c
Candidates(c, container, scale) ==
    {m \in {SimOf(outlines[c], pl, scale) : pl \in Placements} :
        InsideContainer(outlines[c], m, container)}

\* The outcomes of PackBestEffortAtScale for the polygons of the charts
\* iter[i .. ] and one container: per polygon, polyToContainer (0 placed,
\* -1 not placed) and its transform.
RECURSIVE PackerOutcomes(_, _, _, _)
PackerOutcomes(iter, i, container, scale) ==
    IF i > Len(iter) THEN {<< >>}
    ELSE LET rest == PackerOutcomes(iter, i + 1, container, scale)
             here == {[to |-> -1, tr |-> IdentitySim]}
                     \cup {[to |-> 0, tr |-> m] : m \in Candidates(iter[i], container, scale)}
         IN  {<<x>> \o r : x \in here, r \in rest}

\* --------------------------------------------------------------------- Pack
vars == <<pc, shape, hints, WT, VT, outlines, containerVec, packingScale,
          totPacked, containerIndices, packingTransforms, nc, texszVec,
          outlines_iter, transforms, polyToContainer, n, packAttempts,
          packerArg, placedAt, wbI, result, anchorMap, flippedInput, tc, si>>

shiftVars == <<anchorMap, flippedInput, tc, si>>

\* the mesh as it reaches Pack: raw wedge UVs, texture index 0
InitialWT(sh) ==
    [f \in Faces |->
        [j \in 1 .. 3 |->
            [P |-> Shape(sh[ChartOf(f)]).uv[f - 2 * (ChartOf(f) - 1)][j], N |-> 0]]]

Init ==
    /\ pc = "start"
    /\ shape \in ChartSets
    /\ hints \in HintSets
    /\ WT = InitialWT(shape)
    /\ VT = [v \in Verts |-> [P |-> PtZero, N |-> 0]]
    /\ outlines = [c \in Charts |-> << >>]
    /\ containerVec = << >>
    /\ packingScale = 1
    /\ totPacked = 0
    /\ containerIndices = [c \in Charts |-> -1]
    /\ packingTransforms = [c \in Charts |-> IdentitySim]
    /\ nc = 0
    /\ texszVec = << >>
    /\ outlines_iter = << >>
    /\ transforms = << >>
    /\ polyToContainer = << >>
    /\ n = 0
    /\ packAttempts = 0
    /\ packerArg = <<0, 0>>
    /\ placedAt = [c \in Charts |-> <<0, 0>>]
    /\ wbI = 1
    /\ result = -1
    /\ anchorMap = {}
    /\ flippedInput = [c \in Charts |-> FALSE]
    /\ tc = [c \in Charts |-> <<PtZero, PtZero>>]
    /\ si = 1

\* Pack up to the outer loop: outlines, initial containers, packing scale
PackStart ==
    /\ pc = "start"
    /\ pc' = "loop"
    /\ texszVec' = << >>
    /\ outlines' = [c \in Charts |-> ExtractOutline2f(c)]
    /\ containerVec' = [i \in 1 .. Len(hints) |-> InitialContainer(hints[i])]
    /\ packingScale' \in PackingScales(hints)
    /\ totPacked' = 0
    /\ containerIndices' = [c \in Charts |-> -1]
    /\ packingTransforms' = [c \in Charts |-> IdentitySim]
    /\ nc' = 0
    /\ UNCHANGED <<shape, hints, WT, VT, outlines_iter, transforms, polyToContainer,
                   n, packAttempts, packerArg, placedAt, wbI, result, shiftVars>>

\* sqrt(w * w + h * h) > QIMAGE_MAX_DIM for w, h >= 0
DiagonalTooLarge(w, h) ==
    \/ w > QIMAGE_MAX_DIM
    \/ h > QIMAGE_MAX_DIM
    \/ w * w + h * h > QIMAGE_MAX_DIM * QIMAGE_MAX_DIM

\* the tag the batch filter gives chart c: -2, -4, -3, or -1 when c stays
Classify(c) ==
    LET o    == outlines[c]
        bbox == BoxOf(SeqToSet(o))
    IN  IF Len(o) = 0 THEN -2
        ELSE IF ~bbox.fin \/ DimX(bbox) < 0 \/ DimY(bbox) < 0 THEN -4
        ELSE IF DiagonalTooLarge(DimX(bbox) * packingScale, DimY(bbox) * packingScale)
             THEN -3
        ELSE -1

\* faulty variant: the batch takes every chart, whatever its tag
SelectAllCharts(i, idx, tag) == [k \in 1 .. NCharts |-> k]

\* the charts i .. NCharts whose entry in idx is tag, in order
RECURSIVE SelectCharts(_, _, _)
SelectCharts(i, idx, tag) ==
    IF i > NCharts THEN << >>
    ELSE IF idx[i] = tag THEN <<i>> \o SelectCharts(i + 1, idx, tag)
    ELSE SelectCharts(i + 1, idx, tag)

\* faulty variant: a skipped chart is not counted
SkipCountNone(skipped) == 0

\* totPacked++ for every chart the filter skips
SkipCount(skipped) == Cardinality(skipped)

\* One pass through the head of the outer loop: the loop test, the lazy
\* container, the batch of unassigned charts and its filter.
LoopHead ==
    /\ pc = "loop"
    /\ IF ~(totPacked < NCharts)
       THEN /\ pc' = "writeback"
            /\ UNCHANGED <<containerVec, containerIndices, totPacked, outlines_iter,
                           transforms, polyToContainer, n, packAttempts>>
       ELSE LET batch   == SelectCharts(1, containerIndices, -1)
                tagged  == [c \in Charts |->
                              IF containerIndices[c] = -1 THEN Classify(c)
                              ELSE containerIndices[c]]
                skipped == {c \in Charts : containerIndices[c] = -1 /\ tagged[c] # -1}
                iter    == SelectCharts(1, tagged, -1)
            IN  /\ containerVec' = IF nc >= Len(containerVec)
                                   THEN Append(containerVec, <<packingSize, packingSize>>)
                                   ELSE containerVec
                /\ IF batch = << >>
                   THEN /\ pc' = "writeback"
                        /\ UNCHANGED <<containerIndices, totPacked, outlines_iter,
                                       transforms, polyToContainer, n, packAttempts>>
                   ELSE /\ containerIndices' = tagged
                        /\ totPacked' = totPacked + SkipCount(skipped)
                        /\ outlines_iter' = iter
                        /\ transforms' = << >>
                        /\ polyToContainer' = << >>
                        /\ n' = 0
                        /\ packAttempts' = 0
                        /\ pc' = IF iter = << >> THEN "loop" ELSE "attempt"
    /\ wbI' = 1
    /\ UNCHANGED <<shape, hints, WT, VT, outlines, packingScale, packingTransforms,
                   nc, texszVec, packerArg, placedAt, result, shiftVars>>

\* containerVec[nc].X() *= 1.1: int times double, truncated back to int
Grow(x) == (x * 11) \div 10

\* faulty variant: the ceiling test is off by one
CeilingExceededLate(attempts) == attempts > MAX_PACK_ATTEMPTS + 1

\* ++packAttempts > MAX_PACK_ATTEMPTS, for the incremented value
CeilingExceeded(attempts) == attempts > MAX_PACK_ATTEMPTS

\* the attempt ceiling is exceeded: std::exit(-1)
AttemptFatal ==
    /\ pc = "attempt"
    /\ CeilingExceeded(packAttempts + 1)
    /\ packAttempts' = packAttempts + 1
    /\ pc' = "exited"
    /\ UNCHANGED <<shape, hints, WT, VT, outlines, containerVec, packingScale,
                   totPacked, containerIndices, packingTransforms, nc, texszVec,
                   outlines_iter, transforms, polyToContainer, n, packerArg,
                   placedAt, wbI, result, shiftVars>>

\* faulty variant: the container grows after every attempt
GrowsAlways(cnt) == TRUE

\* if (n == 0) after the packer call: the container grows
GrowsContainer(cnt) == cnt = 0

\* faulty variant: the loop test leaves out the growth ceiling
RetryIgnoresCeiling(cnt, container) == cnt = 0

\* the loop test of the retry loop
RetryAgain(cnt, container) ==
    cnt = 0 /\ container[1] <= MAX_SIZE /\ container[2] <= MAX_SIZE

\* one iteration of the retry loop: a packer call, growth on zero
AttemptPack ==
    /\ pc = "attempt"
    /\ ~CeilingExceeded(packAttempts + 1)
    /\ packAttempts' = packAttempts + 1
    /\ packerArg' = containerVec[nc + 1]
    /\ \E out \in PackerOutcomes(outlines_iter, 1, containerVec[nc + 1], packingScale) :
          LET cnt   == Cardinality({i \in 1 .. Len(outlines_iter) : out[i].to # -1})
              grown == IF GrowsContainer(cnt)
                       THEN [containerVec EXCEPT ![nc + 1] =
                                <<Grow(containerVec[nc + 1][1]),
                                  Grow(containerVec[nc + 1][2])>>]
                       ELSE containerVec
          IN  /\ transforms' = [i \in 1 .. Len(outlines_iter) |-> out[i].tr]
              /\ polyToContainer' = [i \in 1 .. Len(outlines_iter) |-> out[i].to]
              /\ n' = cnt
              /\ containerVec' = grown
              /\ pc' = IF RetryAgain(cnt, grown[nc + 1]) THEN "attempt" ELSE "commit"
    /\ UNCHANGED <<shape, hints, WT, VT, outlines, packingScale, totPacked,
                   containerIndices, packingTransforms, nc, texszVec, outlines_iter,
                   placedAt, wbI, result, shiftVars>>

\* faulty variant: the container size is recorded without the inverse scale
TextureSizeUnscaled(container, scale) == [w |-> container[1], h |-> container[2]]

\* {(int) (X * textureScale), (int) (Y * textureScale)}, textureScale = 1 / packingScale
TextureSizeOf(container, scale) ==
    [w |-> RTrunc(<<container[1], scale>>), h |-> RTrunc(<<container[2], scale>>)]

\* faulty variant: the loop also stops after a round that placed one chart
StopsPackingEarly(cnt) == cnt <= 1

\* faulty variant: the loop goes on after a round that placed nothing
StopsPackingNever(cnt) == FALSE

\* if (n == 0) after the retry loop: break
StopsPacking(cnt) == cnt = 0

\* faulty variant: no polygon of the batch is taken as placed
AssignsNoChart(to) == FALSE

\* faulty variant: every polygon of the batch is taken as placed
AssignsEveryChart(to) == TRUE

\* if (polyToContainer[i] != -1): the polygon was placed
AssignsChart(to) == to # -1

\* after the retry loop: count, stop on zero, else commit the container
Commit ==
    /\ pc = "commit"
    /\ totPacked' = totPacked + n
    /\ IF StopsPacking(n)
       THEN /\ pc' = "writeback"
            /\ UNCHANGED <<texszVec, containerIndices, packingTransforms, nc, placedAt>>
       ELSE LET placed == {i \in 1 .. Len(outlines_iter) : AssignsChart(polyToContainer[i])}
                pos(c) == CHOOSE i \in 1 .. Len(outlines_iter) : outlines_iter[i] = c
                isPlaced(c) == \E i \in placed : outlines_iter[i] = c
            IN  /\ texszVec' = Append(texszVec, TextureSizeOf(containerVec[nc + 1], packingScale))
                /\ IF \E i \in placed : polyToContainer[i] # 0
                                         \/ containerIndices[outlines_iter[i]] # -1
                   THEN /\ pc' = "ensure_commit_failed"
                        /\ UNCHANGED <<containerIndices, packingTransforms, nc, placedAt>>
                   ELSE /\ containerIndices' = [c \in Charts |->
                              IF isPlaced(c) THEN nc ELSE containerIndices[c]]
                        /\ packingTransforms' = [c \in Charts |->
                              IF isPlaced(c) THEN transforms[pos(c)]
                              ELSE packingTransforms[c]]
                        /\ placedAt' = [c \in Charts |->
                              IF isPlaced(c) THEN packerArg ELSE placedAt[c]]
                        /\ nc' = nc + 1
                        /\ pc' = "loop"
    \* the locals of the loop body end with the iteration
    /\ outlines_iter' = << >>
    /\ transforms' = << >>
    /\ polyToContainer' = << >>
    /\ n' = 0
    /\ packAttempts' = 0
    /\ packerArg' = <<0, 0>>
    /\ UNCHANGED <<shape, hints, WT, VT, outlines, containerVec, packingScale,
                   wbI, result, shiftVars>>

\* the value the write-back loop stores for wedge j of face f of chart i
WriteBackWedge(i, f, j) ==
    LET ic == containerIndices[i]
    IN  IF ic < 0
        THEN [P |-> PtZero, N |-> 0]
        ELSE LET gridSize == containerVec[ic + 1]
                 p == ApplySim(packingTransforms[i], WT[f][j + 1].P)
             IN  [P |-> <<RDivInt(p[1], gridSize[1]), RDivInt(p[2], gridSize[2])>>,
                  N |-> ic]

\* the wedges <<k, j>> of chart i that store into mesh vertex v, and the last
\* of them in the order of the loops (faces of fpVec, then j)
WedgesAt(i, v) ==
    {w \in (1 .. 2) \X (0 .. 2) : FaceVert(fpVec(i)[w[1]], w[2]) = v}
LastWedgeAt(i, v) ==
    CHOOSE w \in WedgesAt(i, v) :
        \A x \in WedgesAt(i, v) : 3 * x[1] + x[2] <= 3 * w[1] + w[2]

\* the write-back loop body for chart wbI
WriteBackChart ==
    /\ pc = "writeback"
    /\ wbI <= NCharts
    /\ WT' = [f \in Faces |->
                IF ChartOf(f) = wbI
                THEN [j \in 1 .. 3 |-> WriteBackWedge(wbI, f, j - 1)]
                ELSE WT[f]]
    /\ VT' = [v \in Verts |->
                IF WedgesAt(wbI, v) # {}
                THEN WriteBackWedge(wbI, fpVec(wbI)[LastWedgeAt(wbI, v)[1]],
                                    LastWedgeAt(wbI, v)[2])
                ELSE VT[v]]
    /\ wbI' = wbI + 1
    /\ UNCHANGED <<pc, shape, hints, outlines, containerVec, packingScale, totPacked,
                   containerIndices, packingTransforms, nc, texszVec, outlines_iter,
                   transforms, polyToContainer, n, packAttempts, packerArg, placedAt,
                   result, shiftVars>>

\* return totPacked
PackReturn ==
    /\ pc = "writeback"
    /\ wbI > NCharts
    /\ result' = totPacked
    /\ pc' = "returned"
    /\ UNCHANGED <<shape, hints, WT, VT, outlines, containerVec, packingScale,
                   totPacked, containerIndices, packingTransforms, nc, texszVec,
                   outlines_iter, transforms, polyToContainer, n, packAttempts,
                   packerArg, placedAt, wbI, shiftVars>>

\* ------------------------------------------------------------- IntegerShift
\* The original wedge coordinates of an anchor face, wtcsh[fptr].tc[0] and
\* tc[1], that the inputs are drawn from.
TcChoices ==
    { << << <<53, 10>>, <<27, 10>> >>, << <<1053, 10>>, <<27, 10>> >> >>,
      << << RInt(12), <<1, 2>> >>, << RInt(12), <<201, 2>> >> >> }

\* the anchor face of chart c: m.face[it->second]
AnchorFace(c) == fpVec(c)[1]

Dot(a, b) == RAdd(RMul(a[1], b[1]), RMul(a[2], b[2]))
IsZeroVec(a) == a[1][1] = 0 /\ a[2][1] = 0

\* VecAngle(a1, b) < VecAngle(a2, b) for a1, a2 of equal length: the angle
\* between two vectors falls as their dot product rises
AngleLess(a1, a2, b) == RLess(Dot(a2, b), Dot(a1, b))

\* the loop over the four angles; minIdx = -1 stands for minResidual = 2 pi,
\* which every angle is below
RECURSIVE ResidualSearch(_, _, _, _)
ResidualSearch(d0, d1, i, minIdx) ==
    IF i > 3 THEN minIdx
    ELSE IF minIdx = -1 \/ AngleLess(Rotate90(d0, i), Rotate90(d0, minIdx), d1)
         THEN ResidualSearch(d0, d1, i + 1, i)
         ELSE ResidualSearch(d0, d1, i + 1, minIdx)

\* the values minResidualIndex can have after the loop; the angle to a zero
\* vector is not defined, and the loop then ends with 0 or with -1
MinResidualIndices(d0, d1) ==
    IF IsZeroVec(d0) \/ IsZeroVec(d1) THEN {-1, 0}
    ELSE {ResidualSearch(d0, d1, 0, -1)}

ROne == RInt(1)

\* faulty variant: case 1 swaps without reflecting
OffsetTableNoReflect(idx, dx, dy) ==
    CASE idx = 0 -> <<dx, dy>>
      [] idx = 1 -> <<dy, dx>>
      [] idx = 2 -> <<RSub(ROne, dx), RSub(ROne, dy)>>
      [] idx = 3 -> <<dy, RSub(ROne, dx)>>

\* the switch on minResidualIndex: the expected offset <<dx, dy>>
OffsetTable(idx, dx, dy) ==
    CASE idx = 0 -> <<dx, dy>>
      [] idx = 1 -> <<RSub(ROne, dy), dx>>
      [] idx = 2 -> <<RSub(ROne, dx), RSub(ROne, dy)>>
      [] idx = 3 -> <<dy, RSub(ROne, dx)>>

\* dx, dy of the anchor before the switch
AnchorOffset(u0, flipped) ==
    <<IF flipped THEN RSub(ROne, RFrac(u0[1])) ELSE RFrac(u0[1]), RFrac(u0[2])>>

\* the translation t for anchor UV u1, expected offset e, texture size ts
Translation(e, u1, ts) ==
    LET dx1 == RFrac(RMulInt(u1[1], ts.w))
        dy1 == RFrac(RMulInt(u1[2], ts.h))
    IN  <<IF ts.w = 0 THEN NonFinite ELSE RDivInt(RSub(e[1], dx1), ts.w),
          IF ts.h = 0 THEN NonFinite ELSE RDivInt(RSub(e[2], dy1), ts.h)>>

\* the caller passes the charts, the anchors and the flip flags
ShiftStart ==
    /\ pc = "returned"
    /\ pc' = "shift"
    /\ si' = 1
    /\ \E A \in SUBSET Charts, fl \in BOOLEAN, t \in TcChoices :
          /\ anchorMap' = A
          /\ flippedInput' = [c \in Charts |-> c \in A /\ fl]
          /\ tc' = [c \in Charts |-> IF c \in A THEN t ELSE <<PtZero, PtZero>>]
    /\ UNCHANGED <<shape, hints, WT, VT, outlines, containerVec, packingScale,
                   totPacked, containerIndices, packingTransforms, nc, texszVec,
                   outlines_iter, transforms, polyToContainer, n, packAttempts,
                   packerArg, placedAt, wbI, result>>

\* fptr->WT(i).P() += t for the faces of chart c, then V(i)->T().P() = WT(i).P()
ShiftedWT(c, t) ==
    [f \in Faces |->
        IF ChartOf(f) = c
        THEN [j \in 1 .. 3 |-> [WT[f][j] EXCEPT !.P = PtAdd(WT[f][j].P, t)]]
        ELSE WT[f]]

ShiftedVT(c, t) ==
    [v \in Verts |->
        IF WedgesAt(c, v) # {}
        THEN [VT[v] EXCEPT !.P =
                ShiftedWT(c, t)[fpVec(c)[LastWedgeAt(c, v)[1]]][LastWedgeAt(c, v)[2] + 1].P]
        ELSE VT[v]]

\* the loop body of IntegerShift for chart si of chartsToPack
ShiftChart ==
    /\ pc = "shift"
    /\ si <= NCharts
    /\ IF si \notin anchorMap
       THEN /\ si' = si + 1
            /\ UNCHANGED <<pc, WT, VT>>
       ELSE LET f       == AnchorFace(si)
                flipped == flippedInput[si]
                e0      == PtSub(tc[si][2], tc[si][1])
                d0      == IF flipped THEN <<RNeg(e0[1]), e0[2]>> ELSE e0
                d1      == PtSub(WT[f][2].P, WT[f][1].P)
                ti      == WT[f][1].N
                off     == AnchorOffset(tc[si][1], flipped)
            IN  \E minResidualIndex \in MinResidualIndices(d0, d1) :
                   IF ~(ti < Len(texszVec))
                   THEN /\ pc' = "ensure_ti_failed"
                        /\ UNCHANGED <<si, WT, VT>>
                   ELSE IF minResidualIndex = -1
                   THEN /\ pc' = "ensure_rotation_failed"
                        /\ UNCHANGED <<si, WT, VT>>
                   ELSE LET t == Translation(OffsetTable(minResidualIndex, off[1], off[2]),
                                             WT[f][1].P, texszVec[ti + 1])
                        IN  /\ WT' = ShiftedWT(si, t)
                            /\ VT' = ShiftedVT(si, t)
                            /\ si' = si + 1
                            /\ pc' = pc
    /\ UNCHANGED <<shape, hints, outlines, containerVec, packingScale, totPacked,
                   containerIndices, packingTransforms, nc, texszVec, outlines_iter,
                   transforms, polyToContainer, n, packAttempts, packerArg, placedAt,
                   wbI, result, anchorMap, flippedInput, tc>>

\* IntegerShift returns
ShiftReturn ==
    /\ pc = "shift"
    /\ si > NCharts
    /\ pc' = "shifted"
    /\ UNCHANGED <<shape, hints, WT, VT, outlines, containerVec, packingScale,
                   totPacked, containerIndices, packingTransforms, nc, texszVec,
                   outlines_iter, transforms, polyToContainer, n, packAttempts,
                   packerArg, placedAt, wbI, result, shiftVars>>

Next ==
    \/ PackStart
    \/ LoopHead
    \/ AttemptFatal
    \/ AttemptPack
    \/ Commit
    \/ WriteBackChart
    \/ PackReturn
    \/ ShiftStart
    \/ ShiftChart
    \/ ShiftReturn

Spec == Init /\ [][Next]_vars

\* Pack is sequential code: as long as it has a next statement it runs it
PackStep ==
    \/ PackStart
    \/ LoopHead
    \/ AttemptFatal
    \/ AttemptPack
    \/ Commit
    \/ WriteBackChart
    \/ PackReturn

\* the control points at which Pack has a next statement
PackPcs == {"start", "loop", "attempt", "commit", "writeback"}

\* Weak fairness of PackStep, WF_vars(PackStep), with ENABLED <<PackStep>>_vars
\* written out: a step of Pack is possible exactly at the control points of
\* PackPcs.
LiveSpec ==
    Init /\ [][Next]_vars /\ ([]<>(pc \notin PackPcs) \/ []<><<PackStep>>_vars)

\* ============================================================== properties
SkippedTags == {-2, -3, -4}
Assigned == {c \in Charts : containerIndices[c] >= 0}
Skipped == {c \in Charts : containerIndices[c] \in SkippedTags}
Unassigned == {c \in Charts : containerIndices[c] = -1}
\* the indices of the finalized containers
Finalized == 0 .. Len(texszVec) - 1
\* the wedges <<f, j>> of chart c
WedgesOf(c) == {fpVec(c)[k] : k \in 1 .. 2} \X (0 .. 2)

\* C1 (as stated): when Pack returns, every chart's tag is the index of a
\* finalized container or one of the skipped tags -2, -3, -4; no chart is
\* left at -1.
C1_NoChartLeftUnassigned ==
    pc = "returned" =>
        \A c \in Charts : containerIndices[c] \in Finalized \cup SkippedTags

\* C1 (amended): when Pack returns, every chart's tag is the index of a
\* finalized container, a skipped tag, or -1; charts are left at -1 exactly
\* when the return value is below the number of charts, and then the
\* container of the last round has grown past MAX_SIZE.
C1_TagsOnReturn ==
    pc = "returned" =>
        /\ \A c \in Charts : containerIndices[c] \in Finalized \cup SkippedTags \cup {-1}
        /\ (Unassigned # {}) <=> (result < NCharts)
        /\ Unassigned # {} =>
              \/ containerVec[nc + 1][1] > MAX_SIZE
              \/ containerVec[nc + 1][2] > MAX_SIZE

\* C1 witness: Pack has returned with one chart in a container and one left
\* unassigned
C1_Witness ==
    pc = "returned" /\ Unassigned # {} /\ Assigned # {}

\* C2 (as stated): the value Pack returns is the number of charts assigned to
\* a container.
C2_ReturnCountsAssigned ==
    pc = "returned" => result = Cardinality(Assigned)

\* C2 (amended): the value Pack returns is the number of charts assigned to a
\* container plus the number of charts marked permanently skipped.
C2_ReturnCountsAssignedAndSkipped ==
    pc = "returned" => result = Cardinality(Assigned) + Cardinality(Skipped)

\* C2 witness: Pack has returned after assigning one chart and skipping one
C2_Witness ==
    pc = "returned" /\ Assigned # {} /\ Skipped # {}

\* C3: after Pack, every face vertex of a never packed chart has UV (0,0) in
\* the per-vertex and the per-wedge storage, and a texture index that is not
\* the index of a finalized container.
C3_NeverPackedZeroed ==
    pc = "returned" =>
        \A c \in Charts \ Assigned : \A w \in WedgesOf(c) :
            /\ WT[w[1]][w[2] + 1].P = PtZero
            /\ VT[FaceVert(w[1], w[2])].P = PtZero
            /\ WT[w[1]][w[2] + 1].N \notin Finalized
            /\ VT[FaceVert(w[1], w[2])].N \notin Finalized

\* C4 (as stated): when the attempt ceiling is exceeded Pack hands a failure
\* to its caller; the host process is not terminated.
C4_ProcessNeverExits ==
    pc # "exited"

\* C4 (amended): when a round would need more than MAX_PACK_ATTEMPTS packer
\* attempts, Pack ends the process (std::exit): nothing is written back,
\* nothing is returned, and no step follows; the process is ended in no
\* other case.
C4_CeilingExitsProcess ==
    [][ /\ (pc = "attempt" /\ packAttempts = MAX_PACK_ATTEMPTS) =>
              /\ pc' = "exited"
              /\ result' = -1
              /\ WT' = WT /\ VT' = VT /\ texszVec' = texszVec
        /\ pc' = "exited" => (pc = "attempt" /\ packAttempts = MAX_PACK_ATTEMPTS)
        /\ pc # "exited" ]_vars

\* C4 witness: the process has been ended after MAX_PACK_ATTEMPTS attempts
C4_Witness ==
    pc = "exited" /\ packAttempts = MAX_PACK_ATTEMPTS + 1 /\ n = 0

InPack == pc \in {"loop", "attempt", "commit", "writeback", "returned"}

\* C5: for every chart assigned to container k, containerVec[k] stays the
\* container that the placing packer call was given, and every UV the
\* write-back stores for the chart lies in [0,1] on both axes.
C5_CommittedContainerFixed ==
    /\ InPack =>
          \A c \in Assigned : containerVec[containerIndices[c] + 1] = placedAt[c]
    /\ pc \in {"writeback", "returned"} =>
          \A c \in Assigned : c < wbI =>
              \A w \in WedgesOf(c) :
                  /\ WT[w[1]][w[2] + 1].N = containerIndices[c]
                  /\ RInUnit(WT[w[1]][w[2] + 1].P[1])
                  /\ RInUnit(WT[w[1]][w[2] + 1].P[2])
                  /\ RInUnit(VT[FaceVert(w[1], w[2])].P[1])
                  /\ RInUnit(VT[FaceVert(w[1], w[2])].P[2])

\* C5 witness: Pack has returned with a chart that was placed after its
\* container had grown, and the chart's UVs are written
C5_Witness ==
    /\ pc = "returned"
    /\ \E c \in Assigned :
          /\ placedAt[c][1] > packingSize
          /\ \E w \in WedgesOf(c) : WT[w[1]][w[2] + 1].P # PtZero

\* C6: texszVec has one entry per committed container, in index order: its
\* length is nc, the containers 0 .. nc-1 each hold a chart, and entry k is
\* the size derived from the container that the placing packer call was
\* given.
C6_TexszVecPerContainer ==
    InPack =>
        /\ Len(texszVec) = nc
        /\ {containerIndices[c] : c \in Assigned} = 0 .. nc - 1
        /\ \A c \in Assigned :
              /\ containerIndices[c] < Len(texszVec)
              /\ texszVec[containerIndices[c] + 1] =
                    [w |-> placedAt[c][1] \div packingScale,
                     h |-> placedAt[c][2] \div packingScale]

\* C6 witness: Pack has returned with two committed containers, one of them
\* grown, at a packing scale other than 1
C6_Witness ==
    /\ pc = "returned"
    /\ Len(texszVec) = 2
    /\ packingScale # 1
    /\ \E c \in Assigned : placedAt[c][1] > packingSize

\* C7: a step of IntegerShift changes no UV, per-wedge or per-vertex, of a
\* face of a chart that has no entry in anchorMap.
C7_UnanchoredUntouched ==
    [][ pc = "shift" =>
          \A c \in Charts \ anchorMap : \A w \in WedgesOf(c) :
              /\ WT'[w[1]][w[2] + 1].P = WT[w[1]][w[2] + 1].P
              /\ VT'[FaceVert(w[1], w[2])].P = VT[FaceVert(w[1], w[2])].P ]_vars

\* the rotation table as C8 states it
ExpectedOffset(k, dx, dy) ==
    CASE k = 0 -> <<dx, dy>>
      [] k = 1 -> <<RSub(RInt(1), dy), dx>>
      [] k = 2 -> <<RSub(RInt(1), dx), RSub(RInt(1), dy)>>
      [] k = 3 -> <<dy, RSub(RInt(1), dx)>>

\* the rotation index of chart c's anchor (a translation leaves it as it was)
AnchorIndex(c) ==
    LET e0 == PtSub(tc[c][2], tc[c][1])
        d0 == IF flippedInput[c] THEN <<RNeg(e0[1]), e0[2]>> ELSE e0
        d1 == PtSub(WT[AnchorFace(c)][2].P, WT[AnchorFace(c)][1].P)
    IN  IF IsZeroVec(d0) \/ IsZeroVec(d1) THEN 0 ELSE ResidualSearch(d0, d1, 0, -1)

\* the anchor's vertex-0 UV of chart c times the assigned texture size
AnchorPixel(c) ==
    LET w0 == WT[AnchorFace(c)][1]
    IN  <<RMulInt(w0.P[1], texszVec[w0.N + 1].w), RMulInt(w0.P[2], texszVec[w0.N + 1].h)>>

\* the original fractional offset of chart c's anchor, dx reflected if mirrored
OriginalOffset(c) ==
    <<IF flippedInput[c] THEN RSub(RInt(1), RFrac(tc[c][1][1])) ELSE RFrac(tc[c][1][1]),
      RFrac(tc[c][1][2])>>

\* C8: once IntegerShift has shifted an anchored chart, its anchor's
\* vertex-0 UV times the texture size has, modulo 1, the fractional part
\* that the rotation table gives for the original offset; (0.3, 0.7) at
\* index 1 gives (0.3, 0.3).
C8_AnchorPhase ==
    /\ ExpectedOffset(1, <<3, 10>>, <<7, 10>>) = << <<3, 10>>, <<3, 10>> >>
    /\ pc \in {"shift", "shifted"} =>
          \A c \in anchorMap : c < si =>
              LET e == ExpectedOffset(AnchorIndex(c), OriginalOffset(c)[1], OriginalOffset(c)[2])
              IN  /\ RCongMod1(AnchorPixel(c)[1], e[1])
                  /\ RCongMod1(AnchorPixel(c)[2], e[2])

\* C8 witness: an un-mirrored anchor with original offset (0.3, 0.7) whose
\* chart the packer turned by 90 degrees has been shifted to (0.3, 0.3)
C8_Witness ==
    /\ pc = "shifted"
    /\ \E c \in anchorMap :
          /\ ~flippedInput[c]
          /\ <<RFrac(tc[c][1][1]), RFrac(tc[c][1][2])>> = << <<3, 10>>, <<7, 10>> >>
          /\ containerIndices[c] >= 0
          /\ AnchorIndex(c) = 1
          /\ RFrac(AnchorPixel(c)[1]) = <<3, 10>>
          /\ RFrac(AnchorPixel(c)[2]) = <<3, 10>>

\* the retry loop has ended with nothing placed
Exhausted == pc = "commit" /\ n = 0

\* C9 (as stated): capacity exhaustion ends only the round; the charts that
\* are still unassigned are offered to a fresh container by the outer loop.
C9_ExhaustionTriesFreshContainer ==
    [][Exhausted => pc' = "loop"]_vars

\* C9 (amended): capacity exhaustion (nothing placed, a container dimension
\* past MAX_SIZE, at most MAX_PACK_ATTEMPTS attempts) is not a fatal abort,
\* but it ends the outer loop: no further container is tried, the tags and
\* texszVec stay as they are, and Pack goes on to its write-back and returns.
C9_ExhaustionEndsLoop ==
    [][ /\ Exhausted =>
              /\ packAttempts <= MAX_PACK_ATTEMPTS
              /\ containerVec[nc + 1][1] > MAX_SIZE \/ containerVec[nc + 1][2] > MAX_SIZE
              /\ Unassigned # {}
              /\ pc' = "writeback"
              /\ containerIndices' = containerIndices
              /\ texszVec' = texszVec
              /\ nc' = nc
              /\ containerVec' = containerVec
        /\ pc = "writeback" => pc' \in {"writeback", "returned"} ]_vars

\* C9 witness: Pack has returned after a round that placed nothing, with
\* charts still unassigned
C9_Witness ==
    /\ pc = "returned"
    /\ Unassigned # {}
    /\ containerVec[nc + 1][1] > MAX_SIZE

\* the corners of the UV box of chart c
BoxCorners(c) ==
    LET b == UVBox(c)
    IN  {PtInt(x, y) : x \in {b.min[1], b.max[1]}, y \in {b.min[2], b.max[2]}}

\* C10: the outline extracted for a chart has at least one point, and
\* exactly the four corners of the chart's UV box when the extraction falls
\* back (no border loop, or a largest loop smaller than the box); no chart
\* gets the empty-outline tag -2.
C10_OutlineNeverEmpty ==
    /\ pc # "start" =>
          \A c \in Charts : Len(outlines[c]) >= 1 /\ containerIndices[c] # -2
    /\ pc \in {"loop", "attempt", "commit"} =>
          \A c \in Charts :
              (UseChartBBAsOutline(BorderLoops(c), UVBox(c)) /\ UVBox(c).fin) =>
                  /\ Len(outlines[c]) = 4
                  /\ SeqToSet(outlines[c]) = BoxCorners(c)

\* C10 witness: the outlines are extracted for a chart with no border loop
\* and the batch filter has run
C10_Witness ==
    /\ pc = "attempt"
    /\ \E c \in Charts : Shape(shape[c]).loops = << >> /\ Len(outlines[c]) = 4

\* the container of round nc as the round finds it
RoundStartContainer ==
    IF nc < Len(hints) THEN InitialContainer(hints[nc + 1])
    ELSE <<packingSize, packingSize>>

\* a dimension after k growth steps
RECURSIVE GrowN(_, _)
GrowN(x, k) == IF k = 0 THEN x ELSE Grow(GrowN(x, k - 1))

\* every chart of the batch can be placed in a container of this size
BatchFitsAt(container) ==
    \A i \in 1 .. Len(outlines_iter) :
        Candidates(outlines_iter[i], container, packingScale) # {}

\* C11 (as stated): when the charts of a batch cannot all be placed at the
\* current size but can after some growth steps, all of them are assigned
\* to that container, also when the packer places a part of the batch (all
\* that fit) at the current size.
C11_BatchSharesGrownContainer ==
    [][ ( /\ pc = "commit" /\ n > 0
          /\ ~BatchFitsAt(RoundStartContainer)
          /\ \E k \in 1 .. 3 :
                LET c == <<GrowN(RoundStartContainer[1], k), GrowN(RoundStartContainer[2], k)>>
                IN  c[1] <= MAX_SIZE /\ c[2] <= MAX_SIZE /\ BatchFitsAt(c)
          /\ \A i \in 1 .. Len(outlines_iter) :
                Candidates(outlines_iter[i], packerArg, packingScale) # {}
                    => polyToContainer[i] # -1 )
        => \A i \in 1 .. Len(outlines_iter) :
               containerIndices'[outlines_iter[i]] = nc ]_vars

\* C11 (amended): the container grows only after an attempt that placed
\* nothing; the first attempt that places a chart ends the round, and the
\* container is committed at the size of that attempt (the initial size
\* grown once per earlier attempt; 1024 grown twice is 1238) with exactly
\* the charts that attempt placed, the others staying unassigned for the
\* next container.
C11_RoundCommitsFirstPlacement ==
    /\ GrowN(1024, 2) = 1238
    /\ [][ /\ (pc = "attempt" /\ pc' = "attempt") =>
                  /\ n' = 0
                  /\ containerVec'[nc + 1] = <<Grow(containerVec[nc + 1][1]),
                                               Grow(containerVec[nc + 1][2])>>
           /\ (pc = "attempt" /\ n' > 0) =>
                  /\ pc' = "commit"
                  /\ containerVec' = containerVec
           /\ (pc = "commit" /\ n > 0) =>
                  /\ packerArg = <<GrowN(RoundStartContainer[1], packAttempts - 1),
                                   GrowN(RoundStartContainer[2], packAttempts - 1)>>
                  /\ containerVec[nc + 1] = packerArg
                  /\ \A i \in 1 .. Len(outlines_iter) :
                        containerIndices'[outlines_iter[i]] =
                            IF polyToContainer[i] # -1 THEN nc ELSE -1
                  /\ nc' = nc + 1
                  /\ pc' = "loop" ]_vars

\* C11 witness: two charts that fit only after two growth steps have both
\* ended in container 0, whose size is 16384 grown twice
C11_Witness ==
    /\ pc = "returned"
    /\ shape = [c \in Charts |-> "long"]
    /\ \A c \in Charts : containerIndices[c] = 0 /\ placedAt[c] = <<19824, 19824>>
    /\ containerVec[1] = <<GrowN(packingSize, 2), GrowN(packingSize, 2)>>

\* C12: an attempt that places nothing leaves both dimensions of the current
\* container strictly larger than before, and within a round no dimension
\* decreases.
C12_ZeroAttemptGrowsStrictly ==
    [][ pc = "attempt" =>
          /\ n' = 0 /\ pc' # "exited" =>
                /\ containerVec'[nc + 1][1] > containerVec[nc + 1][1]
                /\ containerVec'[nc + 1][2] > containerVec[nc + 1][2]
          /\ containerVec'[nc + 1][1] >= containerVec[nc + 1][1]
          /\ containerVec'[nc + 1][2] >= containerVec[nc + 1][2] ]_vars

\* C13: every Pack call ends (it returns or takes the fatal path); a round
\* makes at most MAX_PACK_ATTEMPTS packer calls; an iteration of the outer
\* loop that goes on to the next leaves fewer charts unassigned, and a round
\* that placed charts raises the number of assigned charts and the count.
C13_PackTerminates ==
    /\ <>(pc \in {"returned", "exited"})
    /\ [][ /\ (pc = "attempt" /\ pc' # "exited") => packAttempts' <= MAX_PACK_ATTEMPTS
           /\ (pc = "loop" /\ pc' = "loop") =>
                  Cardinality(Unassigned') < Cardinality(Unassigned)
           /\ (pc = "commit" /\ pc' = "loop") =>
                  /\ Cardinality(Unassigned') < Cardinality(Unassigned)
                  /\ Cardinality(Assigned') > Cardinality(Assigned)
                  /\ totPacked' > totPacked
           /\ (pc = "commit" /\ n > 0) => pc' = "loop" ]_vars

\* C13 witness: Pack has returned after two successful rounds, with no chart
\* left unassigned
C13_Witness ==
    /\ pc = "returned"
    /\ Len(texszVec) = 2
    /\ Unassigned = {}

\* both dimensions of a container are within the growth ceiling
WithinCeiling(container) == container[1] <= MAX_SIZE /\ container[2] <= MAX_SIZE

\* C14: the packer is never called with, and no texture size or chart is
\* ever committed to, a container with a dimension above MAX_SIZE; no
\* container dimension exceeds QIMAGE_MAX_DIM; a dimension above MAX_SIZE
\* exists only in the current container after a round that placed nothing
\* and is not committed.
C14_ContainersWithinLimits ==
    pc # "start" =>
        /\ pc = "attempt" => WithinCeiling(containerVec[nc + 1])
        /\ packerArg # <<0, 0>> => WithinCeiling(packerArg)
        /\ \A k \in 1 .. Len(texszVec) : WithinCeiling(containerVec[k])
        /\ \A c \in Assigned :
              WithinCeiling(containerVec[containerIndices[c] + 1]) /\ WithinCeiling(placedAt[c])
        /\ \A k \in 1 .. Len(containerVec) :
              /\ containerVec[k][1] <= QIMAGE_MAX_DIM /\ containerVec[k][2] <= QIMAGE_MAX_DIM
              /\ ~WithinCeiling(containerVec[k]) =>
                    /\ k = nc + 1 /\ k > Len(texszVec)
                    /\ pc \notin {"loop", "attempt"}
                    /\ pc = "commit" => n = 0
                    /\ \A c \in Charts : containerIndices[c] # k - 1

\* C14 witness: Pack has returned with one committed container and a second
\* one that grew past MAX_SIZE in a round that placed nothing
C14_Witness ==
    /\ pc = "returned"
    /\ Len(texszVec) = 1
    /\ Len(containerVec) >= 2
    /\ containerVec[2][1] > MAX_SIZE

\* C15: a chart's tag changes at most once, from -1 to the current container
\* index or to a skip tag; the charts sent to the packer are unassigned ones
\* and the ensure at the assignment never fails.
C15_TagSetOnce ==
    [][ /\ \A c \in Charts :
              /\ containerIndices[c] # -1 => containerIndices'[c] = containerIndices[c]
              /\ containerIndices'[c] # containerIndices[c] =>
                    \/ containerIndices'[c] \in SkippedTags /\ pc = "loop"
                    \/ containerIndices'[c] = nc /\ pc = "commit"
           /\ \A i \in 1 .. Len(outlines_iter') : containerIndices'[outlines_iter'[i]] = -1
           /\ pc' # "ensure_commit_failed" ]_vars

\* C15 witness: Pack has returned with one chart assigned in the first round
\* and another, left unassigned by that round, assigned in the second
C15_Witness ==
    /\ pc = "returned"
    /\ \E c, d \in Charts : containerIndices[c] = 0 /\ containerIndices[d] = 1

\* the packing scale sqrt(A / T) for the exact sums A and T
ExactScale == WideScaleOf(hints)

\* C16: the packing scale is sqrt(A / T) for the exact sums A of the initial
\* containers' areas and T of the textures' areas, it is the scale of every
\* packer call, and the 32-bit accumulators hold A and T without wrapping.
C16_ScaleFromExactSums ==
    pc # "start" =>
        /\ packingScale = ExactScale
        /\ ~SumOverflows(ContainerAreas(hints), Len(hints))
        /\ ~SumOverflows(TextureAreas(hints), Len(hints))
        /\ \A i \in 1 .. Len(transforms) :
              polyToContainer[i] # -1 => transforms[i].sca = packingScale

\* the smallest k for which d0 turned by k quarter turns is nearest to d1
BestIndex(d0, d1) ==
    CHOOSE k \in 0 .. 3 :
        /\ \A m \in 0 .. 3 : ~AngleLess(Rotate90(d0, m), Rotate90(d0, k), d1)
        /\ \A m \in 0 .. k - 1 : AngleLess(Rotate90(d0, k), Rotate90(d0, m), d1)

\* the edge vectors d0 and d1 of chart c's anchor
AnchorD0(c) ==
    LET e0 == PtSub(tc[c][2], tc[c][1])
    IN  IF flippedInput[c] THEN <<RNeg(e0[1]), e0[2]>> ELSE e0
AnchorD1(c) == PtSub(WT[AnchorFace(c)][2].P, WT[AnchorFace(c)][1].P)

\* C17: for every anchored chart IntegerShift selects a rotation index in
\* 0 .. 3, the smallest one of least residual, shifts the chart by the
\* translation of that index, and never reaches the default branch of the
\* switch.
C17_RotationIndexSelected ==
    [][ (pc = "shift" /\ si <= NCharts /\ si \in anchorMap /\ pc' # "ensure_ti_failed") =>
          /\ pc' # "ensure_rotation_failed"
          /\ LET off == AnchorOffset(tc[si][1], flippedInput[si])
                 k   == BestIndex(AnchorD0(si), AnchorD1(si))
                 ts  == texszVec[WT[AnchorFace(si)][1].N + 1]
                 t   == Translation(OffsetTable(k, off[1], off[2]), WT[AnchorFace(si)][1].P, ts)
             IN  WT'[AnchorFace(si)][1].P = PtAdd(WT[AnchorFace(si)][1].P, t) ]_vars

\* chart c has no border loop and a finite UV box of zero width or height
ZeroAreaFallback(c) ==
    LET sh  == Shape(shape[c])
        box == BoxOf(UNION {SeqToSet(sh.uv[k]) : k \in 1 .. 2})
    IN  /\ sh.loops = << >>
        /\ box.fin
        /\ DimX(box) = 0 \/ DimY(box) = 0

\* C18: a chart without a border loop whose fallback UV box has zero area is
\* tagged as skipped (empty or invalid bbox) by the batch filter, is in no
\* batch sent to the packer, and has all its UVs at (0,0) when Pack returns.
C18_ZeroAreaChartSkipped ==
    \A c \in Charts :
        ZeroAreaFallback(c) =>
            /\ pc \in {"attempt", "commit", "writeback", "returned"} =>
                  containerIndices[c] \in {-2, -4}
            /\ \A i \in 1 .. Len(outlines_iter) : outlines_iter[i] # c
            /\ pc = "returned" =>
                  \A w \in WedgesOf(c) : WT[w[1]][w[2] + 1].P = PtZero

\* C19: the container index IntegerShift reads from the anchor face of an
\* anchored chart is an index into texszVec, so ensure(ti < texszVec.size())
\* never fails, whatever the chart's outcome in Pack.
C19_AnchorIndexInRange ==
    /\ pc # "ensure_ti_failed"
    /\ (pc = "shift" /\ si <= NCharts /\ si \in anchorMap) =>
          WT[AnchorFace(si)][1].N \in Finalized
====
